---------------------------- MODULE Spec2Model ----------------------------
(***************************************************************************)
(* A model of package lockfreequeue (lockfreequeue.go): the Michael-Scott  *)
(* non-blocking queue on garbage-collected nodes, without counted          *)
(* pointers.  Every atomic.LoadPointer / atomic.CompareAndSwapPointer of   *)
(* Enqueue and Dequeue is one step of the calling goroutine.               *)
(***************************************************************************)
EXTENDS Integers, Sequences, FiniteSets, Bags, TLC

(***************************************************************************)
(* Bounds of the model.                                                    *)
(***************************************************************************)
\* goroutines that call Enqueue and Dequeue in any order (specification Spec)
NumThreads == 2
\* Enqueue calls issued in a run of Spec (Dequeue calls are not bounded)
MaxEnq == 2
\* the values passed to Enqueue are 0..MaxVal (0 is also the zero value of T)
MaxVal == 1
\* the stress test's n (10000 in the test): Enqueue calls per producer
PerProducer == 1

\* the stress test's producer and consumer goroutines
NumProducers == 2
NumConsumers == 2

\* the nil pointer; node identities are 1, 2, ...
Nil == 0
\* the zero value of T (T = int)
Zero == 0
\* the node allocated by New
Dummy == 1

Values == 0..MaxVal
Threads == 1..NumThreads
TestThreads == 1..(NumProducers + NumConsumers)
Producers == 1..NumProducers
Consumers == (NumProducers + 1)..(NumProducers + NumConsumers)

VARIABLES
    head,       \* LockFreeQueue.head
    tail,       \* LockFreeQueue.tail
    nodes,      \* the heap: node identity -> [value, next]
    pc,         \* each goroutine's position
    loc,        \* each goroutine's locals: node, head, tail, next, v
    ret,        \* each goroutine's latest return: [op, v, ok]
    role,       \* who calls the queue: "client", "producer", "consumer"
    iter,       \* the test's producer loop variable i
    cnt,        \* the test's atomic counter
    enqArgs,    \* history: the values passed to Enqueue, in call order
    linked,     \* history: [node, v] of every successful link CAS, in order
    dequeued,   \* history: [node, v] of every successful head CAS, in order
    absQ,       \* the sequential FIFO queue, changed at linearization points
    absRet,     \* what the sequential queue answered each pending call
    spsc,       \* history: so far only goroutine 1 called Enqueue, only goroutine 2 Dequeue
    quiet,      \* the goroutine whose latest call met no concurrent operation
    sawEmpty    \* per Dequeue in progress: head.next was nil at some instant

qvars == <<head, tail, nodes>>
testvars == <<role, iter, cnt>>
hvars == <<enqArgs, linked, dequeued, absQ, absRet, spsc, quiet, sawEmpty>>
vars == <<head, tail, nodes, pc, loc, ret, role, iter, cnt,
          enqArgs, linked, dequeued, absQ, absRet, spsc, quiet, sawEmpty>>

EnqPCs == {"E_loadTail", "E_loadNext", "E_recheck", "E_casNext", "E_swing", "E_help"}
DeqPCs == {"D_loadHead", "D_loadTail", "D_loadNext", "D_recheck", "D_help",
           "D_readValue", "D_casHead"}
QueuePCs == EnqPCs \cup DeqPCs

NoRet == [op |-> "none", v |-> Zero, ok |-> FALSE]
EnqRet == [op |-> "E", v |-> Zero, ok |-> TRUE]
DeqRet(v, ok) == [op |-> "D", v |-> v, ok |-> ok]
DeqEmpty == DeqRet(Zero, FALSE)

NoLoc == [node |-> Nil, head |-> Nil, tail |-> Nil, next |-> Nil, v |-> Zero]

(***************************************************************************)
(* Pointers.  A *unsafe.Pointer is <<"head">>, <<"tail">> or, for &n.next, *)
(* <<"next", n>>.                                                          *)
(***************************************************************************)
HeadPtr == <<"head", Nil>>
TailPtr == <<"tail", Nil>>
NextPtr(n) == <<"next", n>>

\* nil dereference: the goroutine panics
Valid(n) == n \in DOMAIN nodes

NextOf(n) == IF Valid(n) THEN nodes[n].next ELSE Nil
ValueOf(n) == IF Valid(n) THEN nodes[n].value ELSE Zero

\* load[T](p): atomic.LoadPointer
load(p) ==
    CASE p[1] = "head" -> head
      [] p[1] = "tail" -> tail
      [] OTHER -> nodes[p[2]].next

\* the store half of a CAS
Store(p, new) ==
    /\ head' = IF p[1] = "head" THEN new ELSE head
    /\ tail' = IF p[1] = "tail" THEN new ELSE tail
    /\ nodes' = IF p[1] = "next" THEN [nodes EXCEPT ![p[2]].next = new] ELSE nodes

\* a plain store in place of the compare-and-swap: the comparison always passes
casOk_Store(p, old) == TRUE

\* cas[T](p, old, new): atomic.CompareAndSwapPointer; casOk is its result

casOk(p, old) == load(p) = old

cas(p, old, new) ==
    IF casOk(p, old) THEN Store(p, new) ELSE UNCHANGED qvars

\* the emptiness test left out: head == tail always goes on to help tail
EmptyTest_Never(t) == FALSE

\* next is not looked at: head == tail alone reports empty
EmptyTest_Always(t) == TRUE

\* line 125: next == nil, the queue is empty
EmptyTest(t) == loc[t].next = Nil

\* v := head.value: the value of the node being left, not entered
DeqValueNode_Head(t) == loc[t].head

\* line 131: the node whose value Dequeue reads, next (in v := next.value)

DeqValueNode(t) == loc[t].next

\* cas(&q.head, head, head): head is not advanced
NewHead_Stay(t) == loc[t].head

\* line 132: the node Dequeue moves head to, next (in cas(&q.head, head, next))

NewHead(t) == loc[t].next

\* head and tail are not compared: Dequeue always takes the head-CAS branch
HeadTailTest_Never(t) == FALSE

\* line 124: head == tail, the snapshots of head and tail are one node
HeadTailTest(t) == loc[t].head = loc[t].tail

\* next is not looked at: the link CAS is tried on any consistent tail
LastTest_Always(t) == TRUE

\* line 105: next == nil, tail is the last node
LastTest(t) == loc[t].next = Nil

\* the result of the link CAS is ignored: Enqueue goes on to swing tail
AfterLink_Ignore(ok) == "E_swing"

\* line 106-109: a successful link CAS goes on to the tail CAS, a failed one
\* to the next iteration
AfterLink(ok) == IF ok THEN "E_swing" ELSE "E_loadTail"

\* where a call returns to
ReturnTo(t) ==
    CASE role[t] = "producer" -> "P_loop"
      [] role[t] = "consumer" -> "C_count"
      [] OTHER -> "idle"

Idle(t) == pc[t] \notin QueuePCs

(***************************************************************************)
(* History kept on every step: the goroutine whose call runs alone, and    *)
(* whether head.next was nil at an instant of a Dequeue in progress.       *)
(***************************************************************************)
Balanced == Len(linked) = Len(dequeued)

Track(t, calling) ==
    /\ quiet' = IF calling
                THEN (IF Balanced /\ \A u \in DOMAIN pc \ {t} : Idle(u) THEN t ELSE 0)
                ELSE (IF quiet = t THEN t ELSE 0)
    /\ sawEmpty' = [u \in DOMAIN pc |->
                      /\ pc'[u] \in DeqPCs
                      /\ \/ pc[u] \in DeqPCs /\ sawEmpty[u]
                         \/ (IF head' \in DOMAIN nodes' THEN nodes'[head'].next ELSE Nil) = Nil]

NoLin == UNCHANGED <<enqArgs, linked, dequeued, absQ, absRet, spsc>>

(***************************************************************************)
(* New                                                                     *)
(***************************************************************************)
\* New with the tail field left out of the literal: tail is nil
New_TailNil ==
    /\ nodes = (Dummy :> [value |-> Zero, next |-> Nil])
    /\ head = Dummy
    /\ tail = Nil

New ==
    /\ nodes = (Dummy :> [value |-> Zero, next |-> Nil])
    /\ head = Dummy
    /\ tail = Dummy

InitHist(T) ==
    /\ loc = [t \in T |-> NoLoc]
    /\ ret = [t \in T |-> NoRet]
    /\ iter = [t \in T |-> 0]
    /\ cnt = 0
    /\ enqArgs = <<>>
    /\ linked = <<>>
    /\ dequeued = <<>>
    /\ absQ = <<>>
    /\ absRet = [t \in T |-> NoRet]
    /\ spsc = TRUE
    /\ quiet = 0
    /\ sawEmpty = [t \in T |-> FALSE]

Init ==
    /\ New
    /\ role = [t \in Threads |-> "client"]
    /\ InitHist(Threads)
    /\ pc = [t \in Threads |-> "idle"]

(***************************************************************************)
(* Enqueue                                                                 *)
(***************************************************************************)
\* line 99-100: the call; node := &node[T]{value: v}
StartEnqueue(t, v) ==
    LET n == Cardinality(DOMAIN nodes) + 1 IN
    /\ nodes' = nodes @@ (n :> [value |-> v, next |-> Nil])
    /\ UNCHANGED <<head, tail>>
    /\ loc' = [loc EXCEPT ![t] = [NoLoc EXCEPT !.node = n]]
    /\ pc' = [pc EXCEPT ![t] = "E_loadTail"]
    /\ enqArgs' = Append(enqArgs, v)
    /\ spsc' = (spsc /\ t = 1)
    /\ absRet' = [absRet EXCEPT ![t] = NoRet]
    /\ ret' = [ret EXCEPT ![t] = NoRet]
    /\ UNCHANGED <<linked, dequeued, absQ>>
    /\ Track(t, TRUE)

\* line 102: tail := load(&q.tail)
E_loadTail(t) ==
    /\ pc[t] = "E_loadTail"
    /\ loc' = [loc EXCEPT ![t].tail = load(TailPtr)]
    /\ pc' = [pc EXCEPT ![t] = "E_loadNext"]
    /\ UNCHANGED <<qvars, ret, testvars>>
    /\ NoLin /\ Track(t, FALSE)

\* line 103: next := load(&tail.next)
E_loadNext(t) ==
    /\ pc[t] = "E_loadNext"
    /\ IF Valid(loc[t].tail)
       THEN /\ loc' = [loc EXCEPT ![t].next = load(NextPtr(loc[t].tail))]
            /\ pc' = [pc EXCEPT ![t] = "E_recheck"]
       ELSE /\ pc' = [pc EXCEPT ![t] = "panic"]
            /\ UNCHANGED loc
    /\ UNCHANGED <<qvars, ret, testvars>>
    /\ NoLin /\ Track(t, FALSE)

\* line 104-105, 110: if tail == load(&q.tail) { if next == nil {..} else {..} }
E_recheck(t) ==
    /\ pc[t] = "E_recheck"
    /\ pc' = [pc EXCEPT ![t] =
                IF loc[t].tail = load(TailPtr)
                THEN (IF LastTest(t) THEN "E_casNext" ELSE "E_help")
                ELSE "E_loadTail"]
    /\ UNCHANGED <<qvars, loc, ret, testvars>>
    /\ NoLin /\ Track(t, FALSE)

\* line 106: if cas(&tail.next, next, node)
E_casNext(t) ==
    /\ pc[t] = "E_casNext"
    /\ cas(NextPtr(loc[t].tail), loc[t].next, loc[t].node)
    /\ pc' = [pc EXCEPT ![t] = AfterLink(casOk(NextPtr(loc[t].tail), loc[t].next))]
    /\ IF casOk(NextPtr(loc[t].tail), loc[t].next)
       THEN /\ linked' = Append(linked, [node |-> loc[t].node, v |-> ValueOf(loc[t].node)])
            /\ absQ' = Append(absQ, ValueOf(loc[t].node))
            /\ absRet' = [absRet EXCEPT ![t] = EnqRet]
       ELSE UNCHANGED <<linked, absQ, absRet>>
    /\ UNCHANGED <<loc, ret, testvars, enqArgs, dequeued, spsc>>
    /\ Track(t, FALSE)

\* line 107 left out: Enqueue returns after its link CAS without the tail CAS
E_swing_Skip(t) ==
    /\ pc[t] = "E_swing"
    /\ pc' = [pc EXCEPT ![t] = ReturnTo(t)]
    /\ ret' = [ret EXCEPT ![t] = EnqRet]
    /\ loc' = [loc EXCEPT ![t] = NoLoc]
    /\ UNCHANGED <<qvars, testvars>>
    /\ NoLin /\ Track(t, FALSE)

\* line 107-108: cas(&q.tail, tail, node); return
E_swing(t) ==
    /\ pc[t] = "E_swing"
    /\ cas(TailPtr, loc[t].tail, loc[t].node)
    /\ pc' = [pc EXCEPT ![t] = ReturnTo(t)]
    /\ ret' = [ret EXCEPT ![t] = EnqRet]
    /\ loc' = [loc EXCEPT ![t] = NoLoc]
    /\ UNCHANGED testvars
    /\ NoLin /\ Track(t, FALSE)

\* line 111 left out: a lagging tail is not advanced by other Enqueues
E_help_Skip(t) ==
    /\ pc[t] = "E_help"
    /\ pc' = [pc EXCEPT ![t] = "E_loadTail"]
    /\ UNCHANGED <<qvars, loc, ret, testvars>>
    /\ NoLin /\ Track(t, FALSE)

\* line 111: cas(&q.tail, tail, next)
E_help(t) ==
    /\ pc[t] = "E_help"
    /\ cas(TailPtr, loc[t].tail, loc[t].next)
    /\ pc' = [pc EXCEPT ![t] = "E_loadTail"]
    /\ UNCHANGED <<loc, ret, testvars>>
    /\ NoLin /\ Track(t, FALSE)

(***************************************************************************)
(* Dequeue                                                                 *)
(***************************************************************************)
\* line 118: the call
StartDequeue(t) ==
    /\ loc' = [loc EXCEPT ![t] = NoLoc]
    /\ pc' = [pc EXCEPT ![t] = "D_loadHead"]
    /\ spsc' = (spsc /\ t = 2)
    /\ absRet' = [absRet EXCEPT ![t] = NoRet]
    /\ ret' = [ret EXCEPT ![t] = NoRet]
    /\ UNCHANGED <<qvars, enqArgs, linked, dequeued, absQ>>
    /\ Track(t, TRUE)

\* line 120: head := load(&q.head)
D_loadHead(t) ==
    /\ pc[t] = "D_loadHead"
    /\ loc' = [loc EXCEPT ![t].head = load(HeadPtr)]
    /\ pc' = [pc EXCEPT ![t] = "D_loadTail"]
    /\ UNCHANGED <<qvars, ret, testvars>>
    /\ NoLin /\ Track(t, FALSE)

\* line 121: tail := load(&q.tail)
D_loadTail(t) ==
    /\ pc[t] = "D_loadTail"
    /\ loc' = [loc EXCEPT ![t].tail = load(TailPtr)]
    /\ pc' = [pc EXCEPT ![t] = "D_loadNext"]
    /\ UNCHANGED <<qvars, ret, testvars>>
    /\ NoLin /\ Track(t, FALSE)

\* line 122: next := load(&head.next).  Reading nil is where a Dequeue that
\* goes on to report empty takes effect on the sequential queue.
D_loadNext(t) ==
    /\ pc[t] = "D_loadNext"
    /\ IF Valid(loc[t].head)
       THEN /\ loc' = [loc EXCEPT ![t].next = load(NextPtr(loc[t].head))]
            /\ pc' = [pc EXCEPT ![t] = "D_recheck"]
            /\ absRet' = [absRet EXCEPT ![t] =
                            IF load(NextPtr(loc[t].head)) # Nil THEN NoRet
                            ELSE IF absQ = <<>> THEN DeqEmpty
                            ELSE DeqRet(Head(absQ), TRUE)]
       ELSE /\ pc' = [pc EXCEPT ![t] = "panic"]
            /\ UNCHANGED <<loc, absRet>>
    /\ UNCHANGED <<qvars, ret, testvars, enqArgs, linked, dequeued, absQ, spsc>>
    /\ Track(t, FALSE)

\* line 123-128, 130: the consistency check and the three branches
D_recheck(t) ==
    /\ pc[t] = "D_recheck"
    /\ IF loc[t].head = load(HeadPtr)
       THEN IF HeadTailTest(t)
            THEN IF EmptyTest(t)
                 THEN /\ pc' = [pc EXCEPT ![t] = ReturnTo(t)]
                      /\ ret' = [ret EXCEPT ![t] = DeqRet(Zero, FALSE)]
                      /\ loc' = [loc EXCEPT ![t] = NoLoc]
                 ELSE /\ pc' = [pc EXCEPT ![t] = "D_help"]
                      /\ UNCHANGED <<ret, loc>>
            ELSE /\ pc' = [pc EXCEPT ![t] = "D_readValue"]
                 /\ UNCHANGED <<ret, loc>>
       ELSE /\ pc' = [pc EXCEPT ![t] = "D_loadHead"]
            /\ UNCHANGED <<ret, loc>>
    /\ UNCHANGED <<qvars, testvars>>
    /\ NoLin /\ Track(t, FALSE)

\* line 129 left out: a Dequeue that finds tail lagging does not advance it
D_help_Skip(t) ==
    /\ pc[t] = "D_help"
    /\ pc' = [pc EXCEPT ![t] = "D_loadHead"]
    /\ UNCHANGED <<qvars, loc, ret, testvars>>
    /\ NoLin /\ Track(t, FALSE)

\* line 129: cas(&q.tail, tail, next)
D_help(t) ==
    /\ pc[t] = "D_help"
    /\ cas(TailPtr, loc[t].tail, loc[t].next)
    /\ pc' = [pc EXCEPT ![t] = "D_loadHead"]
    /\ UNCHANGED <<loc, ret, testvars>>
    /\ NoLin /\ Track(t, FALSE)

\* line 131: v := next.value
D_readValue(t) ==
    /\ pc[t] = "D_readValue"
    /\ IF Valid(DeqValueNode(t))
       THEN /\ loc' = [loc EXCEPT ![t].v = nodes[DeqValueNode(t)].value]
            /\ pc' = [pc EXCEPT ![t] = "D_casHead"]
       ELSE /\ pc' = [pc EXCEPT ![t] = "panic"]
            /\ UNCHANGED loc
    /\ UNCHANGED <<qvars, ret, testvars>>
    /\ NoLin /\ Track(t, FALSE)

\* line 132-134: if cas(&q.head, head, next) { return v, true }
D_casHead(t) ==
    /\ pc[t] = "D_casHead"
    /\ cas(HeadPtr, loc[t].head, NewHead(t))
    /\ IF casOk(HeadPtr, loc[t].head)
       THEN /\ pc' = [pc EXCEPT ![t] = ReturnTo(t)]
            /\ ret' = [ret EXCEPT ![t] = DeqRet(loc[t].v, TRUE)]
            /\ loc' = [loc EXCEPT ![t] = NoLoc]
            /\ dequeued' = Append(dequeued, [node |-> head', v |-> loc[t].v])
            /\ absRet' = [absRet EXCEPT ![t] =
                            IF absRet[t] # NoRet THEN [op |-> "twice", v |-> Zero, ok |-> FALSE]
                            ELSE IF absQ = <<>> THEN DeqEmpty
                            ELSE DeqRet(Head(absQ), TRUE)]
            /\ absQ' = IF absQ = <<>> THEN absQ ELSE Tail(absQ)
       ELSE /\ pc' = [pc EXCEPT ![t] = "D_loadHead"]
            /\ UNCHANGED <<ret, loc, dequeued, absRet, absQ>>
    /\ UNCHANGED <<testvars, enqArgs, linked, spsc>>
    /\ Track(t, FALSE)

(***************************************************************************)
(* The goroutines of specification Spec: any call, in any order.           *)
(***************************************************************************)
CallEnqueue(t) ==
    /\ pc[t] = "idle"
    /\ Len(enqArgs) < MaxEnq
    /\ \E v \in Values : StartEnqueue(t, v)
    /\ UNCHANGED testvars

CallDequeue(t) ==
    /\ pc[t] = "idle"
    /\ StartDequeue(t)
    /\ UNCHANGED testvars

QueueStep(t) ==
    \/ E_loadTail(t)
    \/ E_loadNext(t)
    \/ E_recheck(t)
    \/ E_casNext(t)
    \/ E_swing(t)
    \/ E_help(t)
    \/ D_loadHead(t)
    \/ D_loadTail(t)
    \/ D_loadNext(t)
    \/ D_recheck(t)
    \/ D_help(t)
    \/ D_readValue(t)
    \/ D_casHead(t)

Next ==
    \E t \in Threads :
        \/ CallEnqueue(t)
        \/ CallDequeue(t)
        \/ QueueStep(t)

Spec == Init /\ [][Next]_vars

(***************************************************************************)
(* TestLockFreeQueue: producers enqueue 0..n-1, consumers dequeue and      *)
(* count until a Dequeue reports empty with the counter at 2*n.            *)
(***************************************************************************)
InitTest ==
    /\ New
    /\ role = [t \in TestThreads |-> IF t \in Producers THEN "producer" ELSE "consumer"]
    /\ InitHist(TestThreads)
    /\ pc = [t \in TestThreads |-> IF t \in Producers THEN "P_loop" ELSE "C_loop"]

\* test line 26-28: for i := 0; i < n; i++ { q.Enqueue(i) }; then wg.Done()
P_loop(t) ==
    /\ pc[t] = "P_loop"
    /\ IF iter[t] < PerProducer
       THEN /\ StartEnqueue(t, iter[t])
            /\ iter' = [iter EXCEPT ![t] = @ + 1]
       ELSE /\ pc' = [pc EXCEPT ![t] = "done"]
            /\ UNCHANGED <<qvars, loc, ret, iter, hvars>>
    /\ UNCHANGED <<role, cnt>>

\* test line 36-37: _, ok := q.Dequeue()
C_loop(t) ==
    /\ pc[t] = "C_loop"
    /\ StartDequeue(t)
    /\ UNCHANGED testvars

\* test line 38-40: if ok { atomic.AddUint32(&cnt, 1) }
C_count(t) ==
    /\ pc[t] = "C_count"
    /\ cnt' = IF ret[t].ok THEN cnt + 1 ELSE cnt
    /\ pc' = [pc EXCEPT ![t] = "C_exit"]
    /\ UNCHANGED <<qvars, loc, ret, role, iter, hvars>>

\* test line 41-43: if !ok && atomic.LoadUint32(&cnt) == 2*n { break }
C_exit(t) ==
    /\ pc[t] = "C_exit"
    /\ pc' = [pc EXCEPT ![t] =
                IF ~ret[t].ok /\ cnt = NumProducers * PerProducer THEN "done" ELSE "C_loop"]
    /\ UNCHANGED <<qvars, loc, ret, testvars, hvars>>

TestStep(t) ==
    \/ P_loop(t)
    \/ C_loop(t)
    \/ C_count(t)
    \/ C_exit(t)
    \/ QueueStep(t)

NextTest == \E t \in TestThreads : TestStep(t)

\* every goroutine of the test is scheduled again and again
SpecTest ==
    /\ InitTest
    /\ [][NextTest]_vars
    /\ \A t \in TestThreads : WF_vars(TestStep(t))


(***************************************************************************)
(* Lock-freedom: goroutine 1 keeps taking steps of its call; the others    *)
(* may stop anywhere, for ever.                                            *)
(***************************************************************************)
SpecLockFree ==
    /\ Init
    /\ [][Next]_vars
    /\ WF_vars(QueueStep(1))

(***************************************************************************)
(* Helpers of the properties.                                              *)
(***************************************************************************)
IsPrefix(s, r) == Len(s) <= Len(r) /\ \A i \in 1..Len(s) : s[i] = r[i]

BagOfSeq(s) ==
    [v \in {s[i] : i \in DOMAIN s} |-> Cardinality({i \in DOMAIN s : s[i] = v})]

\* the values returned with ok = true, in the order of the head CASes
Returned == [i \in DOMAIN dequeued |-> dequeued[i].v]

\* the values linked, in the order of the link CASes
LinkedValues == [i \in DOMAIN linked |-> linked[i].v]

NoEnqueueInProgress == \A t \in DOMAIN pc : pc[t] \notin EnqPCs

(***************************************************************************)
(* C1.  Linearizability.  Every call takes effect on a sequential FIFO     *)
(* queue (absQ) at one of its own steps, hence between its invocation and  *)
(* its return: an Enqueue at its successful link CAS, a Dequeue returning  *)
(* a value at its successful head CAS, a Dequeue reporting empty at its    *)
(* last load of head.next.  What each call returns is what the sequential  *)
(* queue answered at that step: the oldest value not yet removed with      *)
(* ok = true, or (zero, false) when the sequential queue was empty.        *)
(***************************************************************************)
Linearizable ==
    \A t \in DOMAIN pc : ret[t] # NoRet => ret[t] = absRet[t]

\* two Enqueues were linked in the opposite order of their calls, and a
\* Dequeue has returned the first linked value
LinearizableWitness ==
    /\ Len(linked) = 2
    /\ LinkedValues # enqArgs
    /\ \E t \in DOMAIN pc : ret[t] = DeqRet(linked[1].v, TRUE)

(***************************************************************************)
(* C2.  No loss, no duplication.  In every state the values returned with  *)
(* ok = true form a sub-multiset of the values passed to Enqueue; once     *)
(* every Enqueue has returned and the queue is drained, the two multisets  *)
(* are equal.                                                              *)
(***************************************************************************)
NoLossNoDup ==
    /\ BagOfSeq(Returned) \sqsubseteq BagOfSeq(enqArgs)
    /\ (NoEnqueueInProgress /\ NextOf(head) = Nil)
          => BagOfSeq(Returned) = BagOfSeq(enqArgs)

\* two equal values were enqueued by different goroutines and both came back
NoLossNoDupWitness ==
    /\ NoEnqueueInProgress
    /\ NextOf(head) = Nil
    /\ Len(enqArgs) = 2
    /\ enqArgs[1] = enqArgs[2]
    /\ Len(dequeued) = 2
    /\ ~spsc

(***************************************************************************)
(* C3.  FIFO order with a single producer and a single consumer.  While    *)
(* goroutine 1 is the only caller of Enqueue and goroutine 2 the only      *)
(* caller of Dequeue, the values returned with ok = true are a prefix of   *)
(* the values passed to Enqueue, in the same order.                        *)
(***************************************************************************)
FifoSPSC ==
    spsc => IsPrefix(Returned, enqArgs)

\* a producer and a consumer ran concurrently: two different values came
\* back in order, the second while its Enqueue had not returned
FifoSPSCWitness ==
    /\ spsc
    /\ Len(enqArgs) = 2
    /\ enqArgs[1] # enqArgs[2]
    /\ Len(dequeued) = 2
    /\ pc[1] = "E_swing"


(***************************************************************************)
(* C4.  Empty-queue contract.  A Dequeue called while no other call is in  *)
(* progress, on a queue that is fresh or from which as many values have    *)
(* been dequeued as were linked, and that runs with no step of another     *)
(* goroutine (quiet names its caller), returns (zero, false).              *)
(***************************************************************************)
EmptyContract ==
    \A t \in DOMAIN pc : (quiet = t /\ ret[t].op = "D") => ret[t] = DeqEmpty

\* such a Dequeue has returned on a queue from which every value was removed
EmptyContractWitness ==
    \E t \in DOMAIN pc :
        /\ quiet = t
        /\ ret[t] = DeqEmpty
        /\ Len(dequeued) = MaxEnq
        /\ Len(linked) = MaxEnq

(***************************************************************************)
(* C5.  Idempotent emptiness.  In a state where the queue is empty         *)
(* (head = tail, head.next = nil) and no Enqueue is in progress, every     *)
(* step other than a call of Enqueue leaves head, tail and every node as   *)
(* they were, and a Dequeue that returns in that step returns              *)
(* (zero, false).  The queue is therefore empty again after the step:      *)
(* any number of consecutive Dequeue calls behave the same.                *)
(***************************************************************************)
EmptyQueue ==
    /\ head = tail
    /\ NextOf(head) = Nil
    /\ NoEnqueueInProgress

IdempotentEmpty ==
    [][(EmptyQueue /\ \A t \in DOMAIN pc : pc'[t] \notin EnqPCs)
        => /\ head' = head
           /\ tail' = tail
           /\ nodes' = nodes
           /\ \A t \in DOMAIN pc :
                (pc[t] \in DeqPCs /\ pc'[t] \notin DeqPCs) => ret'[t] = DeqEmpty]_vars

\* two Dequeues have reported empty on a queue emptied by earlier Dequeues,
\* and the queue is still empty
IdempotentEmptyWitness ==
    /\ EmptyQueue
    /\ Len(dequeued) >= 1
    /\ \A t \in DOMAIN pc : t <= 2 => ret[t] = DeqEmpty

(***************************************************************************)
(* C6.  A Dequeue reports empty only if the queue was empty at an instant  *)
(* of the call.  head.next is nil exactly when every value linked so far   *)
(* has been removed, and a Dequeue that returns ok = false has seen such   *)
(* a state between its call and its return (sawEmpty).                     *)
(***************************************************************************)
EmptyOnlyIfEmpty ==
    /\ []((NextOf(head) = Nil) <=> Balanced)
    /\ [][\A t \in DOMAIN pc :
            (pc[t] \in DeqPCs /\ pc'[t] \notin DeqPCs /\ ~ret'[t].ok) => sawEmpty[t]]_vars

\* a Dequeue has reported empty although a value is linked by now: the
\* queue was empty only at an earlier instant of the call
EmptyOnlyIfEmptyWitness ==
    \E t \in DOMAIN pc :
        /\ ret[t] = DeqEmpty
        /\ Len(linked) > Len(dequeued)
        /\ quiet # t
        /\ \E u \in DOMAIN pc : pc[u] = "E_swing"


(***************************************************************************)
(* C7.  The stress test terminates.  With every goroutine of the test      *)
(* scheduled fairly, all producers and consumers eventually finish; the    *)
(* counter never exceeds the number of Enqueue calls, NumProducers * n,    *)
(* and equals it once all have finished.                                   *)
(***************************************************************************)
TestTotal == NumProducers * PerProducer

AllDone == \A t \in DOMAIN pc : pc[t] = "done"

StressTerminates ==
    /\ <>AllDone
    /\ [](cnt <= TestTotal)
    /\ [](AllDone => cnt = TestTotal)

\* the test has finished: every value was dequeued and counted
StressTerminatesWitness ==
    /\ AllDone
    /\ cnt = TestTotal
    /\ Len(dequeued) = TestTotal
    /\ role = [t \in TestThreads |-> IF t \in Producers THEN "producer" ELSE "consumer"]

(***************************************************************************)
(* C8.  Lock-freedom.  A goroutine that keeps taking steps completes its   *)
(* call, whatever the others do: they may stop for ever at any point of    *)
(* their own calls, also between an Enqueue's link CAS and its tail CAS.   *)
(***************************************************************************)
LockFree ==
    (pc[1] \in QueuePCs) ~> (pc[1] = "idle")

\* goroutine 1 has completed an Enqueue behind the node of goroutine 2,
\* which is stopped between its link CAS and its tail CAS
LockFreeWitness ==
    /\ pc[2] = "E_swing"
    /\ ret[1] = EnqRet
    /\ Len(linked) = 2
    /\ linked[1].node = loc[2].node
    /\ tail = linked[2].node


(***************************************************************************)
(* C9.  Invariant A.  New leaves head and tail on one dummy node whose     *)
(* next is nil, the only node there is; in every state head and tail       *)
(* point to allocated nodes (neither is nil), so the list that starts at   *)
(* head holds at least one node.                                           *)
(***************************************************************************)
InvariantA ==
    /\ Valid(head)
    /\ Valid(tail)
    /\ enqArgs = <<>> =>
          /\ head = Dummy
          /\ tail = Dummy
          /\ nodes = (Dummy :> [value |-> Zero, next |-> Nil])

\* every value was dequeued again: the list is down to one node, which is
\* no longer the dummy of New
InvariantAWitness ==
    /\ head = tail
    /\ NextOf(head) = Nil
    /\ head # Dummy
    /\ Len(dequeued) = MaxEnq

(***************************************************************************)
(* C10.  Invariant B.  A Dequeue that returns ok = true returns the value  *)
(* stored in the node its own CAS made the new head.  head is the dummy    *)
(* of New until the first such CAS and afterwards the node of the latest   *)
(* one; the nodes so consumed are the successive nodes of the list after   *)
(* the dummy, each consumed once, so no later Dequeue returns the value    *)
(* of the node at head or of a node before it.                             *)
(***************************************************************************)
InvariantB ==
    /\ \A i \in DOMAIN dequeued : dequeued[i].v = ValueOf(dequeued[i].node)
    /\ head = IF dequeued = <<>> THEN Dummy ELSE dequeued[Len(dequeued)].node
    /\ \A i \in DOMAIN dequeued :
          dequeued[i].node = NextOf(IF i = 1 THEN Dummy ELSE dequeued[i - 1].node)
    /\ \A i, j \in DOMAIN dequeued : i < j => dequeued[i].node # dequeued[j].node
    /\ \A i \in DOMAIN dequeued : dequeued[i].node # Dummy

\* two goroutines competed for the same node: one has returned its value,
\* the other still holds the old head and is about to fail its CAS
InvariantBWitness ==
    \E t, u \in DOMAIN pc :
        /\ ret[t].op = "D" /\ ret[t].ok
        /\ ret[t].v # Zero
        /\ pc[u] = "D_casHead"
        /\ loc[u].next = head
        /\ loc[u].head # head


(***************************************************************************)
(* The list, as the link CASes built it.                                   *)
(***************************************************************************)
LinkedNodes == {linked[i].node : i \in DOMAIN linked}

\* the place of a node in the list: 0 for the dummy of New, i for the node
\* of the i-th link CAS, -1 for a node not linked
PosIn(l, n) ==
    IF n = Dummy THEN 0
    ELSE IF \E i \in DOMAIN l : l[i].node = n THEN CHOOSE i \in DOMAIN l : l[i].node = n
    ELSE -1

Pos(n) == PosIn(linked, n)

\* the node linked after the node at place i, nil for the last one
Successor(i) == IF i < Len(linked) THEN linked[i + 1].node ELSE Nil

(***************************************************************************)
(* C11.  Invariant C.  tail points to a node of the list, the dummy or a   *)
(* node whose link CAS has succeeded, never to a node still private to     *)
(* its enqueuer.  That node is the last node of the list, with next nil,   *)
(* or its next is the node linked right after it, to which tail has not    *)
(* been advanced yet.                                                      *)
(***************************************************************************)
InvariantC ==
    /\ Pos(tail) >= 0
    /\ NextOf(tail) = Successor(Pos(tail))

\* tail lags: a node is linked behind the dummy, its enqueuer has not swung
\* tail yet, and another Enqueue still holds the dummy as its tail
InvariantCWitness ==
    /\ Len(linked) = 1
    /\ tail = Dummy
    /\ NextOf(tail) = linked[1].node
    /\ \E t \in DOMAIN pc : pc[t] = "E_swing"
    /\ \E t \in DOMAIN pc : pc[t] = "E_casNext" /\ loc[t].tail = Dummy


(***************************************************************************)
(* C12.  Invariant D, the append-only list.  No step changes the value of  *)
(* a node or a next that is not nil.  A next changes only from nil, only   *)
(* in a step that is the successful link CAS of an Enqueue, and to the     *)
(* node of that Enqueue, which was linked nowhere before.                  *)
(***************************************************************************)
InvariantD ==
    [][\A n \in DOMAIN nodes :
          /\ nodes'[n].value = nodes[n].value
          /\ nodes[n].next # Nil => nodes'[n].next = nodes[n].next
          /\ nodes'[n].next # nodes[n].next =>
                \E t \in DOMAIN pc :
                    /\ pc[t] = "E_casNext" /\ pc'[t] = "E_swing"
                    /\ loc[t].tail = n
                    /\ nodes'[n].next = loc[t].node
                    /\ Pos(loc[t].node) = -1
                    /\ linked' = Append(linked, [node |-> loc[t].node,
                                                 v |-> nodes[loc[t].node].value])]_vars

\* an Enqueue lost the link CAS on a node whose next another Enqueue had
\* set: it is back at the top of its loop and that next is unchanged
InvariantDWitness ==
    \E t \in DOMAIN pc :
        /\ pc[t] = "E_loadTail"
        /\ Valid(loc[t].tail)
        /\ loc[t].next = Nil
        /\ NextOf(loc[t].tail) \in LinkedNodes
        /\ Pos(loc[t].node) = -1

(***************************************************************************)
(* C13.  Exactly one CAS winner.  The nodes linked are all different and   *)
(* each is the next of the node linked just before it (the first of the    *)
(* dummy), so no two nodes share a predecessor and each link CAS won on    *)
(* the then-last node.  An Enqueue in progress has its node linked         *)
(* exactly when it is past its link CAS, and every Enqueue that returned   *)
(* has linked its node: the linked nodes are as many as the Enqueue calls  *)
(* less those still before their link CAS.  Two Enqueues past their link   *)
(* CAS never won it on the same node.                                      *)
(***************************************************************************)
BeforeLink(t) == pc[t] \in EnqPCs \ {"E_swing"}

OneWinner ==
    /\ \A i, j \in DOMAIN linked : i < j => linked[i].node # linked[j].node
    /\ \A i \in DOMAIN linked :
          /\ linked[i].node # Dummy
          /\ NextOf(IF i = 1 THEN Dummy ELSE linked[i - 1].node) = linked[i].node
    /\ \A m, n \in DOMAIN nodes : (m # n /\ NextOf(m) # Nil) => NextOf(m) # NextOf(n)
    /\ \A t \in DOMAIN pc :
          /\ BeforeLink(t) => Pos(loc[t].node) = -1
          /\ pc[t] = "E_swing" => /\ Pos(loc[t].node) >= 1
                                  /\ NextOf(loc[t].tail) = loc[t].node
    /\ Len(linked) = Len(enqArgs) - Cardinality({t \in DOMAIN pc : BeforeLink(t)})
    /\ \A t, u \in DOMAIN pc :
          (t # u /\ pc[t] = "E_swing" /\ pc[u] = "E_swing") => loc[t].tail # loc[u].tail

\* two Enqueues snapshotted the dummy as the last node; one has won the
\* link CAS, the other has lost it, retried and linked behind the winner
OneWinnerWitness ==
    \E t, u \in DOMAIN pc :
        /\ pc[t] = "E_swing" /\ loc[t].tail = Dummy
        /\ pc[u] = "E_swing" /\ loc[u].tail = loc[t].node

(***************************************************************************)
(* C14.  Dequeue order equals link order.  The nodes and values taken by   *)
(* the successful head CASes, in the order of those CASes, are a prefix    *)
(* of the nodes and values linked, in the order of the link CASes; there   *)
(* are never more successful Dequeues than link CASes.                     *)
(***************************************************************************)
DequeueOrder ==
    /\ Len(dequeued) <= Len(linked)
    /\ IsPrefix(dequeued, linked)
    /\ IsPrefix(Returned, LinkedValues)

\* two different values were linked against the order of their calls and
\* came back in the order of the links, dequeued by two goroutines
DequeueOrderWitness ==
    /\ Len(dequeued) = 2
    /\ LinkedValues # enqArgs
    /\ \A t \in DOMAIN pc : ret[t].op = "D" /\ ret[t].ok


(***************************************************************************)
(* C15.  No backward transitions.  head changes only in the successful     *)
(* head CAS of a Dequeue and tail only in a successful tail CAS of an      *)
(* Enqueue or a Dequeue; each change moves the pointer from a node to      *)
(* that node's next, one place up the list.  A node keeps its place in the *)
(* list and the histories of linked and consumed nodes only grow, so a     *)
(* pointer never comes back to a node and no node becomes unlinked or      *)
(* unconsumed again.  A CAS whose location differs from the snapshot, and  *)
(* a consistency re-read, change neither head, tail nor any node.          *)
(***************************************************************************)
Stepped(t) == pc'[t] # pc[t]

HeadMove ==
    head' # head =>
        /\ head' = NextOf(head)
        /\ Pos(head) >= 0
        /\ PosIn(linked', head') = Pos(head) + 1
        /\ \E t \in DOMAIN pc :
              /\ pc[t] = "D_casHead" /\ Stepped(t)
              /\ loc[t].head = head /\ loc[t].next = head'
              /\ ret'[t].ok

TailMove ==
    tail' # tail =>
        /\ tail' = NextOf(tail)
        /\ Pos(tail) >= 0
        /\ PosIn(linked', tail') = Pos(tail) + 1
        /\ \E t \in DOMAIN pc :
              /\ Stepped(t)
              /\ loc[t].tail = tail
              /\ \/ pc[t] = "E_swing" /\ loc[t].node = tail'
                 \/ pc[t] \in {"E_help", "D_help"} /\ loc[t].next = tail'

FailedCas ==
    \A t \in DOMAIN pc :
        /\ (Stepped(t) /\ pc[t] = "D_casHead" /\ head # loc[t].head)
              => UNCHANGED qvars
        /\ (Stepped(t) /\ pc[t] \in {"E_swing", "E_help", "D_help"} /\ tail # loc[t].tail)
              => UNCHANGED qvars
        /\ (Stepped(t) /\ pc[t] = "E_casNext" /\ NextOf(loc[t].tail) # loc[t].next)
              => UNCHANGED qvars
        /\ (Stepped(t) /\ pc[t] \in {"E_recheck", "D_recheck"})
              => UNCHANGED qvars

NodesKeepPlace ==
    /\ IsPrefix(linked, linked')
    /\ IsPrefix(dequeued, dequeued')
    /\ \A n \in DOMAIN nodes : Pos(n) >= 0 => PosIn(linked', n) = Pos(n)

NoBackward ==
    [][HeadMove /\ TailMove /\ FailedCas /\ NodesKeepPlace]_vars

\* head and tail have both moved on and an Enqueue stopped before its tail
\* CAS still holds the dummy as its tail: its CAS is going to fail
NoBackwardWitness ==
    \E t \in DOMAIN pc :
        /\ pc[t] = "E_swing"
        /\ loc[t].tail = Dummy
        /\ Pos(tail) = 2
        /\ Pos(head) = 1


(***************************************************************************)
(* C16.  Cooperative tail repair.  An Enqueue whose consistent snapshot    *)
(* has tail.next # nil, and a Dequeue whose consistent snapshot has        *)
(* head = tail and head.next # nil, go on to CAS tail from the snapshot to *)
(* its next and then restart their loop, whether the CAS succeeded or not. *)
(* While an Enqueue is stopped between its link CAS and its tail CAS,      *)
(* every other link CAS that succeeds links at or behind the stopped       *)
(* Enqueue's node, and a call of goroutine 1 that is in progress returns   *)
(* although goroutine 2 is stopped there.  The tail CAS of an Enqueue      *)
(* that finds tail moved leaves tail where it is, at or after its node.    *)
(***************************************************************************)
HelpAttempt ==
    \A t \in DOMAIN pc :
        /\ (Stepped(t) /\ pc[t] = "E_recheck" /\ loc[t].tail = tail /\ loc[t].next # Nil)
              => pc'[t] = "E_help"
        /\ (Stepped(t) /\ pc[t] = "D_recheck" /\ loc[t].head = head
                /\ loc[t].head = loc[t].tail /\ loc[t].next # Nil)
              => pc'[t] = "D_help"
        /\ (Stepped(t) /\ pc[t] \in {"E_help", "D_help"})
              => /\ loc[t].next # Nil
                 /\ tail' = IF tail = loc[t].tail THEN loc[t].next ELSE tail
                 /\ pc'[t] = IF pc[t] = "E_help" THEN "E_loadTail" ELSE "D_loadHead"
                 /\ UNCHANGED <<head, nodes>>

LinkBehindStalled ==
    \A t, u \in DOMAIN pc :
        (pc[t] = "E_swing" /\ pc[u] = "E_casNext" /\ pc'[u] = "E_swing")
            => /\ Pos(loc[u].tail) >= Pos(loc[t].node)
               /\ tail # loc[t].tail
               /\ PosIn(linked', loc[u].node) > Pos(loc[t].node)

LateSwing ==
    \A t \in DOMAIN pc :
        (Stepped(t) /\ pc[t] = "E_swing" /\ tail # loc[t].tail)
            => /\ tail' = tail
               /\ Pos(tail) >= Pos(loc[t].node)
               /\ Pos(tail) > Pos(loc[t].tail)

TailRepair ==
    /\ [][HelpAttempt /\ LinkBehindStalled /\ LateSwing]_vars
    /\ (pc[2] = "E_swing" /\ tail = loc[2].tail /\ pc[1] \in QueuePCs)
           ~> (pc[1] = "idle")

\* goroutine 2 is stopped before its tail CAS, tail has been moved past its
\* snapshot by goroutine 1, whose Dequeue has returned the value of the
\* node goroutine 2 linked
TailRepairWitness ==
    /\ pc[2] = "E_swing"
    /\ tail # loc[2].tail
    /\ tail = loc[2].node
    /\ head = loc[2].node
    /\ ret[1] = DeqRet(ValueOf(loc[2].node), TRUE)
    /\ dequeued # <<>>
    /\ dequeued[Len(dequeued)].node = loc[2].node


(***************************************************************************)
(* C17.  tail lags the end of the list by at most one node.  In every      *)
(* state, if tail.next is not nil then tail.next.next is nil: at most one  *)
(* linked node lies beyond tail.  A link CAS succeeds only on the node     *)
(* tail points to at that step, and only while that node is the last one.  *)
(***************************************************************************)
LagAtMostOne ==
    /\ NextOf(tail) # Nil => NextOf(NextOf(tail)) = Nil
    /\ Pos(tail) >= 0
    /\ Len(linked) - Pos(tail) \in {0, 1}

LinkOnlyAtTail ==
    \A t \in DOMAIN pc :
        (pc[t] = "E_casNext" /\ pc'[t] = "E_swing")
            => /\ loc[t].tail = tail
               /\ tail' = tail
               /\ NextOf(tail) = Nil
               /\ Pos(tail) = Len(linked)
               /\ nodes'[tail].next = loc[t].node

TailLag == []LagAtMostOne /\ [][LinkOnlyAtTail]_vars

\* tail lags by one node, and an Enqueue whose snapshot saw tail as the
\* last node is about to try its link CAS on it
TailLagWitness ==
    \E t \in DOMAIN pc :
        /\ pc[t] = "E_casNext"
        /\ loc[t].tail = tail
        /\ loc[t].next = Nil
        /\ NextOf(tail) # Nil
        /\ Len(linked) - Pos(tail) = 1


(***************************************************************************)
(* C18.  head never overtakes tail.  In every state the node tail points   *)
(* to is reached from the node head points to by following zero or more    *)
(* next links.  A head CAS is tried only with snapshots head # tail, and   *)
(* when it succeeds the new head is not beyond the current tail, also when *)
(* the tail snapshot is out of date by then.                               *)
(***************************************************************************)
RECURSIVE ReachesIn(_, _, _)
ReachesIn(a, b, fuel) ==
    IF a = b THEN TRUE
    ELSE IF fuel = 0 \/ ~Valid(a) THEN FALSE
    ELSE ReachesIn(NextOf(a), b, fuel - 1)

Reaches(a, b) == ReachesIn(a, b, Cardinality(DOMAIN nodes))

HeadBehindTail ==
    /\ Reaches(head, tail)
    /\ Pos(head) >= 0
    /\ Pos(head) <= Pos(tail)
    /\ \A t \in DOMAIN pc :
          pc[t] \in {"D_readValue", "D_casHead"} =>
              /\ loc[t].head # loc[t].tail
              /\ Pos(loc[t].head) < Pos(loc[t].tail)
              /\ Pos(loc[t].tail) <= Pos(tail)
              /\ loc[t].next = NextOf(loc[t].head)

HeadCasBehindTail ==
    \A t \in DOMAIN pc :
        (Stepped(t) /\ pc[t] = "D_casHead" /\ head = loc[t].head)
            => /\ head' = loc[t].next
               /\ tail' = tail
               /\ Reaches(head', tail)
               /\ PosIn(linked', head') <= Pos(tail)

HeadNotPastTail == []HeadBehindTail /\ [][HeadCasBehindTail]_vars

\* a Dequeue is about to succeed in its head CAS with a tail snapshot that
\* is out of date: tail has moved on since
HeadNotPastTailWitness ==
    \E t \in DOMAIN pc :
        /\ pc[t] = "D_casHead"
        /\ loc[t].head = head
        /\ loc[t].tail # tail
        /\ Pos(tail) = 2


(***************************************************************************)
(* C19.  Enqueue's postcondition on tail.  In the step in which an Enqueue *)
(* returns, its node is linked and tail, after the step, points to that    *)
(* node or to a node linked after it; its tail CAS fails only when tail    *)
(* was already moved to its node or beyond.  Hence in every state in which *)
(* no Enqueue is between its link CAS and its return, tail points to the   *)
(* last node of the list: tail.next = nil.                                 *)
(***************************************************************************)
EnqueueReturn ==
    \A t \in DOMAIN pc :
        (pc[t] = "E_swing" /\ Stepped(t))
            => /\ ret'[t] = EnqRet
               /\ Pos(loc[t].node) >= 1
               /\ NextOf(loc[t].tail) = loc[t].node
               /\ PosIn(linked', tail') >= Pos(loc[t].node)
               /\ tail = loc[t].tail => tail' = loc[t].node
               /\ tail # loc[t].tail =>
                     /\ tail' = tail
                     /\ Pos(tail) >= Pos(loc[t].node)

NoneBeforeSwing == \A t \in DOMAIN pc : pc[t] # "E_swing"

TailAtLast == NoneBeforeSwing => (NextOf(tail) = Nil /\ Pos(tail) = Len(linked))

EnqueuePost == []TailAtLast /\ [][EnqueueReturn]_vars

\* the only Enqueue before its tail CAS finds tail already moved beyond its
\* node by the other goroutine, which linked a node behind it
EnqueuePostWitness ==
    \E t \in DOMAIN pc :
        /\ pc[t] = "E_swing"
        /\ \A u \in DOMAIN pc \ {t} : pc[u] = "idle" /\ ret[u] = EnqRet
        /\ tail # loc[t].tail
        /\ Pos(tail) > Pos(loc[t].node)
        /\ NextOf(tail) = Nil

=============================================================================
